---- MODULE Spec2Model ----
(***************************************************************************)
(* Material node graph of SORT: the operator nodes of                       *)
(* src/material/operation_node.cpp (validation, value evaluation and the   *)
(* weighted BSDF traversal).                                               *)
(*                                                                         *)
(* Floats are modelled as exact rationals <<numerator, denominator>> in    *)
(* lowest terms; float rounding is not modelled.                           *)
(***************************************************************************)
EXTENDS Integers, Sequences, FiniteSets, TLC

(***************************************************************************)
(* Bounds of the model.                                                    *)
(***************************************************************************)
\* most nodes a material graph holds
NumNodes == 3
\* most bindings of a graph that reference a node
MaxRefs == 2
\* display items queued in one run
MaxItems == 3
\* largest count handed to ProcessDisplayQueue
MaxCnt == 2

(***************************************************************************)
(* float arithmetic, as exact rationals                                    *)
(***************************************************************************)
RECURSIVE GCD(_, _)
GCD(a, b) == IF b = 0 THEN a ELSE GCD(b, a % b)

Abs(a) == IF a < 0 THEN -a ELSE a

\* the rational n/d in lowest terms, d > 0
Rat(n, d) ==
    LET g == GCD(Abs(n), Abs(d))
        s == IF d < 0 THEN -1 ELSE 1
    IN  << (s * n) \div g, (s * d) \div g >>

RAdd(a, b) == Rat(a[1] * b[2] + b[1] * a[2], a[2] * b[2])
RSub(a, b) == Rat(a[1] * b[2] - b[1] * a[2], a[2] * b[2])
RMul(a, b) == Rat(a[1] * b[1], a[2] * b[2])

R0 == Rat(0, 1)
R1 == Rat(1, 1)

(***************************************************************************)
(* MaterialPropertyValue (x, y, z, w) and Spectrum (r, g, b)               *)
(***************************************************************************)
\* MaterialPropertyValue( float ): every component holds the scalar
Scalar(r) == << r, r, r, r >>
\* MaterialPropertyValue(): the default value of a binding
DefaultValue == Scalar(R0)

VAdd(a, b) == [i \in 1..4 |-> RAdd(a[i], b[i])]
VSub(a, b) == [i \in 1..4 |-> RSub(a[i], b[i])]
VMul(a, b) == [i \in 1..4 |-> RMul(a[i], b[i])]
VScale(a, k) == [i \in 1..4 |-> RMul(a[i], k)]

\* Spectrum * float
SpectrumScale(w, k) == [i \in 1..3 |-> RMul(w[i], k)]
\* Spectrum::IsBlack
IsBlack(w) == \A i \in 1..3 : w[i] = R0

(***************************************************************************)
(* Node classes, their type flags and their registered properties          *)
(***************************************************************************)
MAT_NODE_CONSTANT == "MAT_NODE_CONSTANT"
MAT_NODE_OPERATOR == "MAT_NODE_OPERATOR"
MAT_NODE_BXDF == "MAT_NODE_BXDF"

\* the classes deriving from OperatorNode: the value-only operators
AlgebraKinds == {"Add", "OneMinus", "GammaToLinear", "LinearToGamma", "NormalDecode"}
\* the operators that also route BSDF weights to their children
RouterKinds == {"Lerp", "Blend", "Multiply"}
OperatorKinds == AlgebraKinds \cup RouterKinds
Kinds == OperatorKinds \cup {"Constant", "BXDF"}

\* REGISTER_MATERIALNODE_PROPERTY of each constructor, in registration order
PropsOf(k) ==
    CASE k = "Add" -> << "Color1", "Color2" >>
      [] k = "OneMinus" -> << "Color" >>
      [] k = "Lerp" -> << "Color1", "Color2", "Factor" >>
      [] k = "Blend" -> << "Color1", "Color2", "Factor1", "Factor2" >>
      [] k = "Multiply" -> << "Color1", "Color2" >>
      [] k = "GammaToLinear" -> << "Color" >>
      [] k = "LinearToGamma" -> << "Color" >>
      [] k = "NormalDecode" -> << "Color" >>
      [] k = "Constant" -> << "Value" >>
      [] k = "BXDF" -> << >>

PropNames(k) == {PropsOf(k)[i] : i \in 1..Len(PropsOf(k))}

\* a binding's node pointer when it references no node
NoNode == 0
\* the output node of the material: the first node built
Root == 1

(***************************************************************************)
(* State                                                                   *)
(***************************************************************************)
VARIABLES
    type,           \* type[n]: the class of node n
    props,          \* props[n][name]: the binding [node, value] registered as name
    m_node_valid,   \* m_node_valid[n]: the cached validity flag of node n
    bsdf,           \* the BSDF accumulator: the lobes added, [node, weight]
    calls,          \* the UpdateBSDF calls of the last traversal: [from, to, weight]
    reads,          \* number of bindings resolved by the routers of the last traversal
    ret,            \* the last call made on the graph and what it returned
    m_queue,        \* DisplayManager: the display items queued, oldest first
    m_status,       \* DisplayManager: the status of the connection to the display server
    m_lock,         \* DisplayManager: the thread holding the spin lock, or NoThread
    m_stream,       \* DisplayManager: the items written to the display server, in order
    thr,            \* thr[t]: where thread t stands in its call, and the call's locals
    log             \* the items in the order pushed (queued) and popped (dequeued)

vars == << type, props, m_node_valid, bsdf, calls, reads, ret,
           m_queue, m_status, m_lock, m_stream, thr, log >>

\* the state of the display manager and of the threads calling it
displayVars == << m_queue, m_status, m_lock, m_stream, thr, log >>
\* the state of the material
materialVars == << type, props, m_node_valid, bsdf, calls, reads, ret >>

Node == DOMAIN type

\* the members the constructors register
src(n) == props[n]["Color"]
src0(n) == props[n]["Color1"]
src1(n) == props[n]["Color2"]
factor(n) == props[n]["Factor"]
factor0(n) == props[n]["Factor1"]
factor1(n) == props[n]["Factor2"]

\* a node as its constructor leaves it: every binding unbound, default value
NewProps(k) == [p \in PropNames(k) |-> [node |-> NoNode, value |-> DefaultValue]]

\* MaterialNode::getNodeType of each class
getNodeType(n) ==
    CASE type[n] = "BXDF" -> {MAT_NODE_BXDF}
      [] type[n] = "Constant" -> {MAT_NODE_CONSTANT}
      [] OTHER -> {MAT_NODE_OPERATOR}

\* input.second->node ? input.second->node->getNodeType() : MAT_NODE_CONSTANT
ReferencedType(b) == IF b.node # NoNode THEN getNodeType(b.node) ELSE {MAT_NODE_CONSTANT}

NoRet == [op |-> "none"]

(***************************************************************************)
(* Validation                                                              *)
(***************************************************************************)
RECURSIVE CheckValidation(_, _)
RECURSIVE VisitProps(_, _, _)

\* MaterialNode::CheckValidation, the loop over the bindings: a referenced node
\* on the current path is a cycle, one already validated in this traversal
\* gives its cached flag, any other is validated in turn
VisitProps(n, i, s) ==
    IF i > Len(PropsOf(type[n])) THEN s
    ELSE LET m == props[n][PropsOf(type[n])[i]].node
         IN  IF m = NoNode THEN VisitProps(n, i + 1, s)
             ELSE IF m \in s.path
                  THEN VisitProps(n, i + 1, [s EXCEPT !.result = FALSE])
             ELSE IF m \in s.visited
                  THEN VisitProps(n, i + 1, [s EXCEPT !.result = @ /\ s.valid[m]])
             ELSE LET c == CheckValidation(m, s)
                  IN  VisitProps(n, i + 1, [c EXCEPT !.result = s.result /\ c.result])

\* MaterialNode::CheckValidation
MaterialNode_CheckValidation(n, st) ==
    LET s == VisitProps(n, 1, [st EXCEPT !.path = @ \cup {n}, !.result = TRUE])
    IN  [s EXCEPT !.path = @ \ {n}, !.visited = @ \cup {n}, !.valid[n] = s.result]

\* OperatorNode::CheckValidation without its loop over the bindings
OperatorNode_CheckValidation_NoTypeCheck(n, st) == MaterialNode_CheckValidation(n, st)

\* OperatorNode::CheckValidation starting from m_node_valid = true instead of
\* the base class's result
OperatorNode_CheckValidation_IgnoreBase(n, st) ==
    LET b == MaterialNode_CheckValidation(n, st)
        bxdf == \E p \in PropNames(type[n]) : MAT_NODE_BXDF \in ReferencedType(props[n][p])
    IN  [b EXCEPT !.valid[n] = ~bxdf, !.result = ~bxdf]

\* OperatorNode::CheckValidation
OperatorNode_CheckValidation(n, st) ==
    LET b == MaterialNode_CheckValidation(n, st)
        bxdf == \E p \in PropNames(type[n]) : MAT_NODE_BXDF \in ReferencedType(props[n][p])
        v == IF bxdf THEN FALSE ELSE b.result
    IN  [b EXCEPT !.valid[n] = v, !.result = v]

\* MutiplyNode: two BXDF children are rejected
MutiplyNode_CheckValidation(n, st) ==
    LET b == MaterialNode_CheckValidation(n, st)
        both == /\ MAT_NODE_BXDF \in ReferencedType(src0(n))
                /\ MAT_NODE_BXDF \in ReferencedType(src1(n))
        v == IF both THEN FALSE ELSE b.result
    IN  [b EXCEPT !.valid[n] = v, !.result = v]

\* every operator class, the routers included, deriving from OperatorNode
CheckValidation_RoutersAsOperators(n, st) ==
    CASE type[n] \in OperatorKinds -> OperatorNode_CheckValidation(n, st)
      [] OTHER -> MaterialNode_CheckValidation(n, st)

\* the virtual call node->CheckValidation()
CheckValidation(n, st) ==
    CASE type[n] \in AlgebraKinds -> OperatorNode_CheckValidation(n, st)
      [] type[n] = "Multiply" -> MutiplyNode_CheckValidation(n, st)
      [] OTHER -> MaterialNode_CheckValidation(n, st)

(***************************************************************************)
(* Value evaluation: GetNodeValue                                          *)
(***************************************************************************)
RECURSIVE GetNodeValue(_)

\* MaterialNodeProperty::GetPropertyValue
GetPropertyValue(b) == IF b.node # NoNode THEN GetNodeValue(b.node) ELSE b.value

\* AddNode::GetNodeValue
AddNode_GetNodeValue(n) == VAdd(GetPropertyValue(src0(n)), GetPropertyValue(src1(n)))

\* SORTNodeOneMinus::GetNodeValue
SORTNodeOneMinus_GetNodeValue(n) == VSub(Scalar(R1), GetPropertyValue(src(n)))

\* LerpNode::GetNodeValue with the two weights exchanged
LerpNode_GetNodeValue_Swapped(n) ==
    LET f == GetPropertyValue(factor(n))[1]
    IN  VAdd(VScale(GetPropertyValue(src0(n)), f),
             VScale(GetPropertyValue(src1(n)), RSub(R1, f)))

\* LerpNode::GetNodeValue
LerpNode_GetNodeValue(n) ==
    LET f == GetPropertyValue(factor(n))[1]
    IN  VAdd(VScale(GetPropertyValue(src0(n)), RSub(R1, f)),
             VScale(GetPropertyValue(src1(n)), f))

\* BlendNode::GetNodeValue with Factor1 scaling both terms
BlendNode_GetNodeValue_SameFactor(n) ==
    LET f0 == GetPropertyValue(factor0(n))[1]
    IN  VAdd(VScale(GetPropertyValue(src0(n)), f0),
             VScale(GetPropertyValue(src1(n)), f0))

\* BlendNode::GetNodeValue
BlendNode_GetNodeValue(n) ==
    LET f0 == GetPropertyValue(factor0(n))[1]
        f1 == GetPropertyValue(factor1(n))[1]
    IN  VAdd(VScale(GetPropertyValue(src0(n)), f0),
             VScale(GetPropertyValue(src1(n)), f1))

\* MutiplyNode::GetNodeValue
MutiplyNode_GetNodeValue(n) == VMul(GetPropertyValue(src0(n)), GetPropertyValue(src1(n)))

\* NormalDecoderNode::GetNodeValue with Y and Z left where they are stored
NormalDecoderNode_GetNodeValue_NoSwizzle(n) ==
    LET tmp == GetPropertyValue(src(n))
    IN  << RSub(RMul(Rat(2, 1), tmp[1]), R1), RSub(RMul(Rat(2, 1), tmp[2]), R1), tmp[3], R0 >>

\* NormalDecoderNode::GetNodeValue
NormalDecoderNode_GetNodeValue(n) ==
    LET tmp == GetPropertyValue(src(n))
    IN  << RSub(RMul(Rat(2, 1), tmp[1]), R1), tmp[3], RSub(RMul(Rat(2, 1), tmp[2]), R1), R0 >>

\* the virtual call node->GetNodeValue( bsdf ). A constant node gives its
\* value; a node with no value of its own (a BXDF node) gives the default
\* value. The gamma nodes apply pow() and have no rational model: the graphs
\* under evaluation hold none.
GetNodeValue(n) ==
    CASE type[n] = "Add" -> AddNode_GetNodeValue(n)
      [] type[n] = "OneMinus" -> SORTNodeOneMinus_GetNodeValue(n)
      [] type[n] = "Lerp" -> LerpNode_GetNodeValue(n)
      [] type[n] = "Blend" -> BlendNode_GetNodeValue(n)
      [] type[n] = "Multiply" -> MutiplyNode_GetNodeValue(n)
      [] type[n] = "NormalDecode" -> NormalDecoderNode_GetNodeValue(n)
      [] type[n] = "Constant" -> GetPropertyValue(props[n]["Value"])
      [] type[n] = "BXDF" -> DefaultValue

(***************************************************************************)
(* Weighted BSDF traversal: UpdateBSDF                                     *)
(* c = [bsdf, calls, reads, valid] is what the traversal has done so far:   *)
(* the accumulator, the calls made, the bindings resolved and the validity *)
(* flags of the nodes as it leaves them.                                   *)
(***************************************************************************)
RECURSIVE UpdateBSDF(_, _, _)

\* from's call to->UpdateBSDF( bsdf , w )
CallUpdateBSDF(from, to, w, c) ==
    UpdateBSDF(to, w, [c EXCEPT !.calls = Append(@, [from |-> from, to |-> to, weight |-> w])])

\* a binding's GetPropertyValue, counted
Resolved(c) == [c EXCEPT !.reads = @ + 1]

\* LerpNode::UpdateBSDF without the test of a black weight
LerpNode_UpdateBSDF_NoPrune(n, weight, c) ==
    LET f == GetPropertyValue(factor(n))[1]
        c0 == Resolved(c)
        c1 == IF src0(n).node # NoNode
              THEN CallUpdateBSDF(n, src0(n).node, SpectrumScale(weight, RSub(R1, f)), c0)
              ELSE c0
    IN  IF src1(n).node # NoNode
        THEN CallUpdateBSDF(n, src1(n).node, SpectrumScale(weight, f), c1)
        ELSE c1

\* LerpNode::UpdateBSDF with the two weights exchanged
LerpNode_UpdateBSDF_Swapped(n, weight, c) ==
    IF IsBlack(weight) THEN c
    ELSE LET f == GetPropertyValue(factor(n))[1]
             c0 == Resolved(c)
             c1 == IF src0(n).node # NoNode
                   THEN CallUpdateBSDF(n, src0(n).node, SpectrumScale(weight, f), c0)
                   ELSE c0
         IN  IF src1(n).node # NoNode
             THEN CallUpdateBSDF(n, src1(n).node, SpectrumScale(weight, RSub(R1, f)), c1)
             ELSE c1

\* LerpNode::UpdateBSDF caching "nothing to add" in the node's validity flag
LerpNode_UpdateBSDF_WritesFlag(n, weight, c) ==
    IF IsBlack(weight) THEN [c EXCEPT !.valid[n] = FALSE]
    ELSE LET f == GetPropertyValue(factor(n))[1]
             c0 == Resolved(c)
             c1 == IF src0(n).node # NoNode
                   THEN CallUpdateBSDF(n, src0(n).node, SpectrumScale(weight, RSub(R1, f)), c0)
                   ELSE c0
         IN  IF src1(n).node # NoNode
             THEN CallUpdateBSDF(n, src1(n).node, SpectrumScale(weight, f), c1)
             ELSE c1

\* LerpNode::UpdateBSDF
LerpNode_UpdateBSDF(n, weight, c) ==
    IF IsBlack(weight) THEN c
    ELSE LET f == GetPropertyValue(factor(n))[1]
             c0 == Resolved(c)
             c1 == IF src0(n).node # NoNode
                   THEN CallUpdateBSDF(n, src0(n).node, SpectrumScale(weight, RSub(R1, f)), c0)
                   ELSE c0
         IN  IF src1(n).node # NoNode
             THEN CallUpdateBSDF(n, src1(n).node, SpectrumScale(weight, f), c1)
             ELSE c1

\* BlendNode::UpdateBSDF
BlendNode_UpdateBSDF(n, weight, c) ==
    IF IsBlack(weight) THEN c
    ELSE LET f0 == GetPropertyValue(factor0(n))[1]
             f1 == GetPropertyValue(factor1(n))[2]
             c0 == Resolved(Resolved(c))
             c1 == IF src0(n).node # NoNode
                   THEN CallUpdateBSDF(n, src0(n).node, SpectrumScale(weight, f0), c0)
                   ELSE c0
         IN  IF src1(n).node # NoNode
             THEN CallUpdateBSDF(n, src1(n).node, SpectrumScale(weight, f1), c1)
             ELSE c1

\* MutiplyNode::UpdateBSDF handing the weight on unscaled
MutiplyNode_UpdateBSDF_Unscaled(n, weight, c) ==
    IF IsBlack(weight) THEN c
    ELSE LET type0 == ReferencedType(src0(n))
             type1 == ReferencedType(src1(n))
         IN  IF MAT_NODE_BXDF \in type0
             THEN CallUpdateBSDF(n, src0(n).node, weight, c)
             ELSE IF MAT_NODE_BXDF \in type1
             THEN CallUpdateBSDF(n, src1(n).node, weight, c)
             ELSE c

\* MutiplyNode::UpdateBSDF
MutiplyNode_UpdateBSDF(n, weight, c) ==
    IF IsBlack(weight) THEN c
    ELSE LET type0 == ReferencedType(src0(n))
             type1 == ReferencedType(src1(n))
         IN  IF MAT_NODE_BXDF \in type0
             THEN CallUpdateBSDF(n, src0(n).node,
                                 SpectrumScale(weight, GetPropertyValue(src1(n))[1]), Resolved(c))
             ELSE IF MAT_NODE_BXDF \in type1
             THEN CallUpdateBSDF(n, src1(n).node,
                                 SpectrumScale(weight, GetPropertyValue(src0(n))[1]), Resolved(c))
             ELSE c

\* a BSDF-producing node: its lobe enters the accumulator with the weight
BxdfNode_UpdateBSDF(n, weight, c) ==
    IF IsBlack(weight) THEN c
    ELSE [c EXCEPT !.bsdf = Append(@, [node |-> n, weight |-> weight])]

\* the virtual call node->UpdateBSDF( bsdf , weight ); the value-only classes
\* add nothing
UpdateBSDF(n, weight, c) ==
    CASE type[n] = "Lerp" -> LerpNode_UpdateBSDF(n, weight, c)
      [] type[n] = "Blend" -> BlendNode_UpdateBSDF(n, weight, c)
      [] type[n] = "Multiply" -> MutiplyNode_UpdateBSDF(n, weight, c)
      [] type[n] = "BXDF" -> BxdfNode_UpdateBSDF(n, weight, c)
      [] OTHER -> c

(***************************************************************************)
(* DisplayManager: the queue of display items. The rendering threads queue *)
(* items, the display threads process them. A step is what a thread does   *)
(* between two points where another thread can run: taking the spin lock,  *)
(* each statement under it, the processing of an item outside it.          *)
(***************************************************************************)
CONNECTION_SUCCEED == "CONNECTION_SUCCEED"
CONNECTION_FAILED == "CONNECTION_FAILED"
\* the status before ResolveDisplayServerConnection has run
CONNECTION_UNRESOLVED == "CONNECTION_UNRESOLVED"

\* the threads calling QueueDisplayItem and those calling ProcessDisplayQueue
Producers == {"R1", "R2"}
Consumers == {"D1", "D2"}

NoThread == "none"
\* std::shared_ptr<DisplayItemBase> item, before it is given a value
NoItem == 0

\* the counts handed to ProcessDisplayQueue
Counts == -1 .. MaxCnt

\* a thread outside any call
IdleProducer == [pc |-> "idle", item |-> NoItem]
\* cnt and item are the locals of ProcessDisplayQueue; cnt0, status, taken,
\* processed and sawEmpty tell what the thread's last call was handed, what
\* status it read, how many items it popped and processed and whether it
\* found the queue empty
IdleConsumer ==
    [pc |-> "idle", cnt |-> 0, item |-> NoItem,
     cnt0 |-> 0, status |-> CONNECTION_UNRESOLVED, taken |-> 0, processed |-> 0,
     sawEmpty |-> FALSE]

InitDisplay ==
    /\ m_queue = << >>
    /\ m_status = CONNECTION_UNRESOLVED
    /\ m_lock = NoThread
    /\ m_stream = << >>
    /\ thr = [t \in Producers \cup Consumers |->
                 IF t \in Producers THEN IdleProducer ELSE IdleConsumer]
    /\ log = [created |-> 0, queued |-> << >>, dequeued |-> << >>]

(***************************************************************************)
(* Authoring and validation of a material                                  *)
(***************************************************************************)
\* the nodes the bindings of n reference
Succ(n) == {props[n][p].node : p \in PropNames(type[n])} \ {NoNode}

RECURSIVE ReachFrom(_)
ReachFrom(S) ==
    LET T == S \cup UNION {Succ(n) : n \in S}
    IN  IF T = S THEN S ELSE ReachFrom(T)

\* the nodes a traversal from n can reach, n included
Reachable(n) == ReachFrom({n})

AllProps == {"Color", "Color1", "Color2", "Factor", "Factor1", "Factor2", "Value"}

\* the bindings of the graph
Bindings == UNION {{<< n, p >> : p \in PropNames(type[n])} : n \in Node}
\* how many reference a node
NumRefs == Cardinality({b \in Bindings : props[b[1]][b[2]].node # NoNode})

InitGraph(K) ==
    /\ \E k \in K : type = << k >> /\ props = << NewProps(k) >>
    /\ m_node_valid = << TRUE >>
    /\ bsdf = << >>
    /\ calls = << >>
    /\ reads = 0
    /\ ret = NoRet
    /\ InitDisplay

Init == InitGraph(Kinds)

\* the classes of the nodes built below the root: one for each shape
\* CheckValidation tells apart (no property, one, two, three; OperatorNode,
\* router, constant, BXDF)
ChildKinds == {"Constant", "BXDF", "OneMinus", "Add", "Lerp", "Multiply"}

\* the material file gives the property p of node n a new node of class k
AddChild(n, p, k) ==
    /\ ret = NoRet
    /\ Len(type) < NumNodes
    /\ p \in PropNames(type[n])
    /\ props[n][p] = [node |-> NoNode, value |-> DefaultValue]
    /\ NumRefs < MaxRefs
    /\ type' = Append(type, k)
    /\ props' = Append([props EXCEPT ![n][p].node = Len(type) + 1], NewProps(k))
    /\ m_node_valid' = Append(m_node_valid, TRUE)
    /\ UNCHANGED << bsdf, calls, reads, ret >>
    /\ UNCHANGED displayVars

\* the material file gives the property p of node n the existing node m
Link(n, p, m) ==
    /\ ret = NoRet
    /\ p \in PropNames(type[n])
    /\ props[n][p] = [node |-> NoNode, value |-> DefaultValue]
    /\ NumRefs < MaxRefs
    /\ props' = [props EXCEPT ![n][p].node = m]
    /\ UNCHANGED << type, m_node_valid, bsdf, calls, reads, ret >>
    /\ UNCHANGED displayVars

\* the built material is validated: node n's CheckValidation is called
CheckValidationCall(n) ==
    LET r == CheckValidation(n, [valid |-> m_node_valid, visited |-> {}, path |-> {}, result |-> TRUE])
    IN  /\ ret = NoRet
        /\ m_node_valid' = r.valid
        /\ ret' = [op |-> "CheckValidation", node |-> n, value |-> r.result]
        /\ UNCHANGED << type, props, bsdf, calls, reads >>
        /\ UNCHANGED displayVars

Next ==
    \/ \E n \in Node, p \in AllProps, k \in ChildKinds : AddChild(n, p, k)
    \/ \E n \in Node, p \in AllProps, m \in Node : Link(n, p, m)
    \/ \E n \in Node : CheckValidationCall(n)

Spec == Init /\ [][Next]_vars

(***************************************************************************)
(* Evaluation of a material: the graph is built, then evaluated. A graph   *)
(* under evaluation holds no reference cycle.                              *)
(***************************************************************************)
\* the values the material file gives to bindings
LitVals == { << Rat(1, 2), Rat(1, 4), R0, R0 >>, Scalar(Rat(2, 1)) }
\* the weights a traversal starts with
Weights == { << R0, R0, R0 >>, << R1, R1, R1 >>, << Rat(1, 2), R0, R1 >> }
\* the accumulators the caller hands to a traversal
Accumulators == { << >>, << [node |-> NoNode, weight |-> << R1, R1, R1 >>] >> }

\* the classes of the root and of the nodes built below it, under UpdateBSDF
PushKinds == RouterKinds \cup {"BXDF", "Constant"}
PushChildKinds == {"BXDF", "Constant", "Lerp"}
\* the classes of the root and of the nodes built below it, under GetNodeValue
PullKinds == {"Constant", "Lerp", "Blend", "NormalDecode"}
PullChildKinds == {"Constant", "Lerp"}

\* the material file gives the property p of node n the value v; the values
\* it gives are those of the root's bindings and of the constant nodes
SetValue(n, p, v) ==
    /\ ret = NoRet
    /\ n = Root \/ type[n] = "Constant"
    /\ p \in PropNames(type[n])
    /\ props[n][p] = [node |-> NoNode, value |-> DefaultValue]
    /\ props' = [props EXCEPT ![n][p].value = v]
    /\ UNCHANGED << type, m_node_valid, bsdf, calls, reads, ret >>
    /\ UNCHANGED displayVars

\* Link, when it closes no cycle
LinkAcyclic(n, p, m) == Link(n, p, m) /\ n \notin Reachable(m)

\* node n's UpdateBSDF is called with weight w on the accumulator acc
UpdateBSDFCall(n, w, acc) ==
    LET c == UpdateBSDF(n, w, [bsdf |-> acc, calls |-> << >>, reads |-> 0, valid |-> m_node_valid])
    IN  /\ ret = NoRet
        /\ bsdf' = c.bsdf
        /\ calls' = c.calls
        /\ reads' = c.reads
        /\ m_node_valid' = c.valid
        /\ ret' = [op |-> "UpdateBSDF", node |-> n, weight |-> w, bsdf0 |-> acc]
        /\ UNCHANGED << type, props >>
        /\ UNCHANGED displayVars

\* node n's GetNodeValue is called
GetNodeValueCall(n) ==
    /\ ret' = [op |-> "GetNodeValue", node |-> n, value |-> GetNodeValue(n)]
    /\ UNCHANGED << type, props, m_node_valid, bsdf, calls, reads >>
    /\ UNCHANGED displayVars

InitPush == InitGraph(PushKinds)

NextPush ==
    \/ \E n \in Node, p \in AllProps, k \in PushChildKinds : AddChild(n, p, k)
    \/ \E n \in Node, p \in AllProps, m \in Node : LinkAcyclic(n, p, m)
    \/ \E n \in Node, p \in AllProps, v \in LitVals : SetValue(n, p, v)
    \/ \E w \in Weights, acc \in Accumulators : UpdateBSDFCall(Root, w, acc)

SpecPush == InitPush /\ [][NextPush]_vars

\* a binding holding the value v
Literal(v) == [node |-> NoNode, value |-> v]
\* a binding referencing node m
Ref(m) == [node |-> m, value |-> DefaultValue]

\* Lerp(a=2, b=4, f=0.25)
LerpScalars ==
    /\ type = << "Lerp" >>
    /\ props = << [Color1 |-> Literal(Scalar(Rat(2, 1))),
                   Color2 |-> Literal(Scalar(Rat(4, 1))),
                   Factor |-> Literal(Scalar(Rat(1, 4)))] >>

\* Lerp(src0=ConstantColor(1,0,0), src1=ConstantColor(0,1,0), factor=ConstantScalar(0.3))
LerpColors ==
    /\ type = << "Lerp", "Constant", "Constant", "Constant" >>
    /\ props = << [Color1 |-> Ref(2), Color2 |-> Ref(3), Factor |-> Ref(4)],
                  [Value |-> Literal(<< R1, R0, R0, R0 >>)],
                  [Value |-> Literal(<< R0, R1, R0, R0 >>)],
                  [Value |-> Literal(Scalar(Rat(3, 10)))] >>

\* NormalDecode(0.5, 0.5, 1.0), the flat normal of a normal map
NormalDecodeFlat ==
    /\ type = << "NormalDecode" >>
    /\ props = << [Color |-> Literal(<< Rat(1, 2), Rat(1, 2), R1, R0 >>)] >>

InitPull ==
    \/ InitGraph(PullKinds)
    \/ /\ LerpScalars \/ LerpColors \/ NormalDecodeFlat
       /\ m_node_valid = [n \in DOMAIN type |-> TRUE]
       /\ bsdf = << >>
       /\ calls = << >>
       /\ reads = 0
       /\ ret = NoRet
       /\ InitDisplay

NextPull ==
    \/ \E n \in Node, p \in AllProps, k \in PullChildKinds : AddChild(n, p, k)
    \/ \E n \in Node, p \in AllProps, m \in Node : LinkAcyclic(n, p, m)
    \/ \E n \in Node, p \in AllProps, v \in LitVals : SetValue(n, p, v)
    \/ GetNodeValueCall(Root)

SpecPull == InitPull /\ [][NextPull]_vars

(***************************************************************************)
(* Rendering: the graph is built and validated once, then the rendering    *)
(* threads evaluate it, each call on an accumulator of its own. The calls  *)
(* take no lock and write no member of a node, so that each is one step    *)
(* and their interleavings are the orders of these steps.                  *)
(***************************************************************************)
Threads == {"T1", "T2"}

\* the thread of the call before this one
After == IF ret.op = "CheckValidation" THEN "main" ELSE ret.thread

\* thread t calls node n's UpdateBSDF with weight w on a fresh accumulator
ThreadUpdateBSDF(t, n, w) ==
    LET c == UpdateBSDF(n, w, [bsdf |-> << >>, calls |-> << >>, reads |-> 0, valid |-> m_node_valid])
    IN  /\ ret # NoRet
        /\ type[n] \in OperatorKinds
        /\ bsdf' = c.bsdf
        /\ calls' = c.calls
        /\ reads' = c.reads
        /\ m_node_valid' = c.valid
        /\ ret' = [op |-> "UpdateBSDF", node |-> n, weight |-> w, bsdf0 |-> << >>,
                   thread |-> t, after |-> After]
        /\ UNCHANGED << type, props >>
        /\ UNCHANGED displayVars

\* thread t calls node n's GetNodeValue
ThreadGetNodeValue(t, n) ==
    /\ ret # NoRet
    /\ type[n] \in OperatorKinds
    /\ ret' = [op |-> "GetNodeValue", node |-> n, value |-> GetNodeValue(n),
               thread |-> t, after |-> After]
    /\ UNCHANGED << type, props, m_node_valid, bsdf, calls, reads >>
    /\ UNCHANGED displayVars

\* the classes of the nodes built below the root of a rendered material, and
\* the weights its traversals start with: black and the identity weight
RenderChildKinds == {"BXDF", "Lerp"}
RenderWeights == { << R0, R0, R0 >>, << R1, R1, R1 >> }

InitRender == InitGraph(RouterKinds)

NextRender ==
    \/ \E n \in Node, p \in AllProps, k \in RenderChildKinds : AddChild(n, p, k)
    \/ \E n \in Node, p \in AllProps, m \in Node : LinkAcyclic(n, p, m)
    \/ CheckValidationCall(Root)
    \/ \E t \in Threads, n \in Node, w \in RenderWeights : ThreadUpdateBSDF(t, n, w)
    \/ \E t \in Threads, n \in Node : ThreadGetNodeValue(t, n)

SpecRender == InitRender /\ [][NextRender]_vars

(***************************************************************************)
(* DisplayManager: the calls                                               *)
(***************************************************************************)
\* DisplayManager::ResolveDisplayServerConnection; ok is what ResolveSocket returns
ResolveDisplayServerConnection(ok) ==
    /\ m_status' = IF ok THEN CONNECTION_SUCCEED ELSE CONNECTION_FAILED
    /\ UNCHANGED << m_queue, m_lock, m_stream, thr, log >>
    /\ UNCHANGED materialVars

\* thread t calls QueueDisplayItem with a new item
QueueDisplayItem_Call(t) ==
    /\ thr[t].pc = "idle"
    /\ log.created < MaxItems
    /\ thr' = [thr EXCEPT ![t] = [pc |-> "lock", item |-> log.created + 1]]
    /\ log' = [log EXCEPT !.created = @ + 1]
    /\ UNCHANGED << m_queue, m_status, m_lock, m_stream >>
    /\ UNCHANGED materialVars

\* std::lock_guard<spinlock_mutex> guard(m_lock), in QueueDisplayItem
QueueDisplayItem_Lock(t) ==
    /\ thr[t].pc = "lock"
    /\ m_lock = NoThread
    /\ m_lock' = t
    /\ thr' = [thr EXCEPT ![t].pc = "push"]
    /\ UNCHANGED << m_queue, m_status, m_stream, log >>
    /\ UNCHANGED materialVars

\* m_queue.push(item), then the guard releases the lock and the call returns
QueueDisplayItem_Push(t) ==
    /\ thr[t].pc = "push"
    /\ m_queue' = Append(m_queue, thr[t].item)
    /\ log' = [log EXCEPT !.queued = Append(@, thr[t].item)]
    /\ m_lock' = NoThread
    /\ thr' = [thr EXCEPT ![t] = IdleProducer]
    /\ UNCHANGED << m_status, m_stream >>
    /\ UNCHANGED materialVars

\* thread t calls ProcessDisplayQueue(c): it bails if the connection is not
\* established
ProcessDisplayQueue_Call(t, c) ==
    /\ thr[t].pc = "idle"
    /\ thr' = [thr EXCEPT ![t] =
                 [IdleConsumer EXCEPT !.cnt0 = c, !.status = m_status,
                      !.pc = IF m_status # CONNECTION_SUCCEED THEN "idle" ELSE "loop",
                      !.cnt = IF m_status # CONNECTION_SUCCEED THEN 0 ELSE c]]
    /\ UNCHANGED << m_queue, m_status, m_lock, m_stream, log >>
    /\ UNCHANGED materialVars

\* while (cnt-- != 0)
ProcessDisplayQueue_Loop(t) ==
    /\ thr[t].pc = "loop"
    /\ thr' = IF thr[t].cnt # 0
              THEN [thr EXCEPT ![t].cnt = @ - 1, ![t].pc = "lock"]
              ELSE [thr EXCEPT ![t].cnt = 0, ![t].pc = "idle"]
    /\ UNCHANGED << m_queue, m_status, m_lock, m_stream, log >>
    /\ UNCHANGED materialVars

\* std::lock_guard<spinlock_mutex> guard(m_lock), in ProcessDisplayQueue
ProcessDisplayQueue_Lock(t) ==
    /\ thr[t].pc = "lock"
    /\ m_lock = NoThread
    /\ m_lock' = t
    /\ thr' = [thr EXCEPT ![t].pc = "front"]
    /\ UNCHANGED << m_queue, m_status, m_stream, log >>
    /\ UNCHANGED materialVars

\* if (m_queue.empty()) break; item = m_queue.front();
ProcessDisplayQueue_Front(t) ==
    /\ thr[t].pc = "front"
    /\ IF m_queue = << >>
       THEN /\ m_lock' = NoThread
            /\ thr' = [thr EXCEPT ![t].sawEmpty = TRUE, ![t].cnt = 0, ![t].pc = "idle"]
       ELSE /\ m_lock' = m_lock
            /\ thr' = [thr EXCEPT ![t].item = Head(m_queue), ![t].pc = "pop"]
    /\ UNCHANGED << m_queue, m_status, m_stream, log >>
    /\ UNCHANGED materialVars

\* ProcessDisplayQueue's pop step with m_queue.pop() left out
ProcessDisplayQueue_Pop_KeepsFront(t) ==
    /\ thr[t].pc = "pop"
    /\ m_queue' = m_queue
    /\ log' = [log EXCEPT !.dequeued = Append(@, thr[t].item)]
    /\ m_lock' = NoThread
    /\ thr' = [thr EXCEPT ![t].taken = @ + 1, ![t].pc = "process"]
    /\ UNCHANGED << m_status, m_stream >>
    /\ UNCHANGED materialVars

\* m_queue.pop(), then the guard releases the lock
ProcessDisplayQueue_Pop(t) ==
    /\ thr[t].pc = "pop"
    /\ m_queue' = Tail(m_queue)
    /\ log' = [log EXCEPT !.dequeued = Append(@, thr[t].item)]
    /\ m_lock' = NoThread
    /\ thr' = [thr EXCEPT ![t].taken = @ + 1, ![t].pc = "process"]
    /\ UNCHANGED << m_status, m_stream >>
    /\ UNCHANGED materialVars

\* item->Process(m_stream): the item is written to the display server
ProcessDisplayQueue_Process(t) ==
    /\ thr[t].pc = "process"
    /\ m_stream' = Append(m_stream, thr[t].item)
    /\ thr' = [thr EXCEPT ![t].processed = @ + 1, ![t].item = NoItem, ![t].pc = "loop"]
    /\ UNCHANGED << m_queue, m_status, m_lock, log >>
    /\ UNCHANGED materialVars

\* the material plays no part here: a single constant node
InitDisplayManager == InitGraph({"Constant"})

NextDisplay ==
    \/ \E ok \in BOOLEAN : ResolveDisplayServerConnection(ok)
    \/ \E t \in Producers : QueueDisplayItem_Call(t)
    \/ \E t \in Producers : QueueDisplayItem_Lock(t)
    \/ \E t \in Producers : QueueDisplayItem_Push(t)
    \/ \E t \in Consumers, c \in Counts : ProcessDisplayQueue_Call(t, c)
    \/ \E t \in Consumers : ProcessDisplayQueue_Loop(t)
    \/ \E t \in Consumers : ProcessDisplayQueue_Lock(t)
    \/ \E t \in Consumers : ProcessDisplayQueue_Front(t)
    \/ \E t \in Consumers : ProcessDisplayQueue_Pop(t)
    \/ \E t \in Consumers : ProcessDisplayQueue_Process(t)

SpecDisplay == InitDisplayManager /\ [][NextDisplay]_vars

(***************************************************************************)
(* Claims about validation                                                 *)
(***************************************************************************)
\* m lies on a reference cycle
OnCycle(m) == m \in ReachFrom(Succ(m))

HasBxdfBinding(n) == \E p \in PropNames(type[n]) : MAT_NODE_BXDF \in ReferencedType(props[n][p])
Unbound(n) == \A p \in PropNames(type[n]) : props[n][p].node = NoNode

\* the last call was CheckValidation on node n
Validated(n) == ret.op = "CheckValidation" /\ ret.node = n

BadNodeBelow(r, K) == \E m \in Reachable(r) : type[m] \in K /\ HasBxdfBinding(m)

ConstantChild(b) == b.node = NoNode \/ (type[b.node] = "Constant" /\ Unbound(b.node))
BxdfChild(b) == b.node # NoNode /\ type[b.node] = "BXDF"

\* the root shapes of C4
RouterWithBxdf(n) ==
    \/ /\ type[n] = "Lerp"
       /\ BxdfChild(src0(n)) /\ BxdfChild(src1(n)) /\ factor(n).node = NoNode
    \/ /\ type[n] = "Blend"
       /\ BxdfChild(src0(n)) /\ BxdfChild(src1(n))
       /\ factor0(n).node = NoNode /\ factor1(n).node = NoNode
    \/ /\ type[n] = "Multiply"
       /\ \/ BxdfChild(src0(n)) /\ ConstantChild(src1(n))
          \/ ConstantChild(src0(n)) /\ BxdfChild(src1(n))

Pushed(k) == ret.op = "UpdateBSDF" /\ type[ret.node] = k

\* the calls node n made itself, in order
CallsFrom(n) == SelectSeq(calls, LAMBDA c : c.from = n)
\* the call n owes to the binding b: none when b is unbound
Expected(n, b, w) == IF b.node # NoNode THEN << [from |-> n, to |-> b.node, weight |-> w] >> ELSE << >>

BxdfTyped(b) == MAT_NODE_BXDF \in ReferencedType(b)

\* C5: UpdateBSDF of a Lerp, Blend or Multiply node with a black weight leaves
\* the accumulator as it was, calls no child and resolves no binding.
C5_BlackWeightPruned ==
    \A k \in RouterKinds :
        (Pushed(k) /\ IsBlack(ret.weight)) =>
            (bsdf = ret.bsdf0 /\ calls = << >> /\ reads = 0)

C5_Witness ==
    /\ Pushed("Lerp") /\ IsBlack(ret.weight)
    /\ BxdfChild(src0(ret.node)) /\ BxdfChild(src1(ret.node))
    /\ factor(ret.node).value # DefaultValue
    /\ bsdf # << >>

\* C6: Multiply's UpdateBSDF with a weight w that is not black: with one child
\* BXDF-typed and the other resolving to first component k, the only call is
\* the BXDF child's UpdateBSDF with w * k; with no child BXDF-typed there is no
\* call and the accumulator is as it was.
C6_MultiplyRoutes ==
    (Pushed("Multiply") /\ ~IsBlack(ret.weight)) =>
        LET n == ret.node
            w == ret.weight
        IN  /\ (BxdfTyped(src0(n)) /\ ~BxdfTyped(src1(n))) =>
                  calls = << [from |-> n, to |-> src0(n).node,
                              weight |-> SpectrumScale(w, GetPropertyValue(src1(n))[1])] >>
            /\ (~BxdfTyped(src0(n)) /\ BxdfTyped(src1(n))) =>
                  calls = << [from |-> n, to |-> src1(n).node,
                              weight |-> SpectrumScale(w, GetPropertyValue(src0(n))[1])] >>
            /\ (~BxdfTyped(src0(n)) /\ ~BxdfTyped(src1(n))) =>
                  (calls = << >> /\ bsdf = ret.bsdf0)

C6_Witness ==
    /\ Pushed("Multiply") /\ ~IsBlack(ret.weight)
    /\ ~BxdfTyped(src0(ret.node)) /\ BxdfTyped(src1(ret.node))
    /\ GetPropertyValue(src0(ret.node))[1] = Rat(1, 2)
    /\ Len(calls) = 1
    /\ Len(bsdf) = Len(ret.bsdf0) + 1

\* C7: Lerp's UpdateBSDF with a weight w that is not black and f the first
\* component of the resolved Factor: the calls Lerp makes are one to the Color1
\* child with w * (1 - f) when Color1 references a node, and one to the Color2
\* child with w * f when Color2 references a node; no other call.
C7_LerpRoutes ==
    (Pushed("Lerp") /\ ~IsBlack(ret.weight)) =>
        LET n == ret.node
            w == ret.weight
            f == GetPropertyValue(factor(n))[1]
        IN  CallsFrom(n) = Expected(n, src0(n), SpectrumScale(w, RSub(R1, f)))
                           \o Expected(n, src1(n), SpectrumScale(w, f))

C7_Witness ==
    /\ Pushed("Lerp") /\ ~IsBlack(ret.weight)
    /\ src0(ret.node).node # NoNode /\ src1(ret.node).node # NoNode
    /\ src0(ret.node).node # src1(ret.node).node
    /\ GetPropertyValue(factor(ret.node))[1] = Rat(1, 2)
    /\ Len(CallsFrom(ret.node)) = 2

\* C8: Blend's UpdateBSDF with a weight w that is not black: the Color1 child
\* receives w * f0 and the Color2 child w * f1, f0 the first component of the
\* resolved Factor1 and f1 the first component of the resolved Factor2.
C8_BlendRoutes ==
    (Pushed("Blend") /\ ~IsBlack(ret.weight)) =>
        LET n == ret.node
            w == ret.weight
            f0 == GetPropertyValue(factor0(n))[1]
            f1 == GetPropertyValue(factor1(n))[1]
        IN  CallsFrom(n) = Expected(n, src0(n), SpectrumScale(w, f0))
                           \o Expected(n, src1(n), SpectrumScale(w, f1))

(***************************************************************************)
(* Claims about value evaluation                                           *)
(***************************************************************************)
\* the last call was GetNodeValue on the root, a node of class k
Pulled(k) == ret.op = "GetNodeValue" /\ type[ret.node] = k

\* C9 (original): Blend's GetNodeValue is a * f0 + b * f0 component-wise, f0
\* the first component of Factor1, whatever Factor2 is.
C9_Original ==
    Pulled("Blend") =>
        LET n == ret.node
            a == GetPropertyValue(src0(n))
            b == GetPropertyValue(src1(n))
            f0 == GetPropertyValue(factor0(n))[1]
        IN  \A i \in 1..4 : ret.value[i] = RAdd(RMul(a[i], f0), RMul(b[i], f0))

\* C9 (amended): Blend's GetNodeValue is a * f0 + b * f1 component-wise, f0 the
\* first component of Factor1 and f1 the first component of Factor2.
C9_BlendValue ==
    Pulled("Blend") =>
        LET n == ret.node
            a == GetPropertyValue(src0(n))
            b == GetPropertyValue(src1(n))
            f0 == GetPropertyValue(factor0(n))[1]
            f1 == GetPropertyValue(factor1(n))[1]
        IN  \A i \in 1..4 : ret.value[i] = RAdd(RMul(a[i], f0), RMul(b[i], f1))

C9_Witness ==
    /\ Pulled("Blend")
    /\ src1(ret.node).value = Scalar(Rat(2, 1))
    /\ factor1(ret.node).value = << Rat(1, 2), Rat(1, 4), R0, R0 >>
    /\ ret.value = << R1, R1, R1, R1 >>

\* C10: Lerp's GetNodeValue is a * (1 - f) + b * f component-wise, a and b the
\* resolved Color1 and Color2 and f the first component of the resolved
\* Factor; Lerp(2, 4, 0.25) is 2.5 and Lerp((1,0,0), (0,1,0), 0.3) is
\* (0.7, 0.3, 0).
C10_LerpValue ==
    Pulled("Lerp") =>
        LET n == ret.node
            a == GetPropertyValue(src0(n))
            b == GetPropertyValue(src1(n))
            f == GetPropertyValue(factor(n))[1]
        IN  /\ \A i \in 1..4 :
                  ret.value[i] = RAdd(RMul(a[i], RSub(R1, f)), RMul(b[i], f))
            /\ LerpScalars => ret.value = Scalar(Rat(5, 2))
            /\ LerpColors => ret.value = << Rat(7, 10), Rat(3, 10), R0, R0 >>

C10_Witness == Pulled("Lerp") /\ LerpColors /\ ret.value[1] = Rat(7, 10)

\* C11: NormalDecode's GetNodeValue of the resolved Color a = (x, y, z, w) is
\* (2x - 1, z, 2y - 1, 0): Y and Z are swizzled, Z is passed through unscaled
\* and the fourth component is 0 whatever w is; (0.5, 0.5, 1.0) gives
\* (0, 1, 0, 0).
C11_NormalDecodeValue ==
    Pulled("NormalDecode") =>
        LET a == GetPropertyValue(src(ret.node))
        IN  /\ ret.value = << RSub(RAdd(a[1], a[1]), R1), a[3], RSub(RAdd(a[2], a[2]), R1), R0 >>
            /\ NormalDecodeFlat => ret.value = << R0, R1, R0, R0 >>

\* the flat normal is decoded
C11_Witness == Pulled("NormalDecode") /\ NormalDecodeFlat /\ ret.value = << R0, R1, R0, R0 >>

(***************************************************************************)
(* Claims about rendering                                                  *)
(***************************************************************************)
EvaluationOps == {"GetNodeValue", "UpdateBSDF"}

\* C12: after validation, a step that is a GetNodeValue or an UpdateBSDF call
\* on an Operator node, of whatever thread and after whatever other calls,
\* leaves every node's class, property bindings and cached validity flag
\* unchanged, and a GetNodeValue call leaves the BSDF accumulator unchanged
\* too; the validity flag of a node changes in CheckValidation steps only.
C12_EvaluationWritesNoNode ==
    [][ /\ ret'.op \in EvaluationOps =>
              type' = type /\ props' = props /\ m_node_valid' = m_node_valid
        /\ ret'.op = "GetNodeValue" => bsdf' = bsdf
        /\ (\E n \in Node : m_node_valid'[n] # m_node_valid[n]) =>
              ret = NoRet /\ ret'.op = "CheckValidation" ]_vars

\* thread T2's GetNodeValue on a valid Operator node, right after a call of
\* thread T1, with the accumulator an UpdateBSDF call filled
C12_Witness ==
    /\ ret.op = "GetNodeValue"
    /\ ret.thread = "T2"
    /\ ret.after = "T1"
    /\ type[ret.node] \in OperatorKinds
    /\ m_node_valid[ret.node]
    /\ bsdf # << >>

(***************************************************************************)
(* Claims about the display queue                                          *)
(***************************************************************************)
\* q is s or a beginning of s
IsPrefix(q, s) == Len(q) <= Len(s) /\ q = SubSeq(s, 1, Len(q))

\* C13: under any interleaving of QueueDisplayItem and ProcessDisplayQueue
\* calls, no item is dequeued twice and the items are dequeued in the order
\* they were queued; a ProcessDisplayQueue(cnt) call with cnt > 0 processes at
\* most cnt items, ends when it finds the queue empty and otherwise ends only
\* with cnt items taken; a call that read a status other than
\* CONNECTION_SUCCEED has ended, took no item off the queue and processed
\* none.
C13_DisplayQueue ==
    /\ \A i, j \in 1..Len(log.dequeued) : i # j => log.dequeued[i] # log.dequeued[j]
    /\ IsPrefix(log.dequeued, log.queued)
    /\ \A t \in Consumers :
          LET c == thr[t]
          IN  /\ c.processed <= c.taken
              /\ c.cnt0 > 0 => c.taken <= c.cnt0
              /\ c.sawEmpty => c.pc = "idle"
              /\ (c.pc = "idle" /\ c.cnt0 > 0 /\ c.status = CONNECTION_SUCCEED) =>
                     c.sawEmpty \/ c.processed = c.cnt0
              /\ c.status # CONNECTION_SUCCEED =>
                     c.pc = "idle" /\ c.taken = 0 /\ c.processed = 0

\* a call with cnt = 2 has ended with two items processed while a third stays
\* queued, and the other display thread's call bailed on a failed connection
C13_Witness ==
    \E t, u \in Consumers :
        /\ thr[t].pc = "idle" /\ thr[t].cnt0 = 2 /\ thr[t].processed = 2
        /\ thr[t].taken = 2
        /\ Len(log.dequeued) = 2
        /\ Len(m_queue) = 1
        /\ thr[u].cnt0 > 0 /\ thr[u].status = CONNECTION_FAILED

====
